---- MODULE Spec2Model ----
(***************************************************************************)
(* typeyao: typed record schemas ("models") with an in-memory indexed      *)
(* cache of instances.  The module models                                  *)
(*   - fields.py       FieldInfo (construction, binding, validation)       *)
(*   - base/_meta.py   ModelFieldMap, ModelMeta, ModelCache,               *)
(*                     UniqueFieldCache, IndexFieldCache                   *)
(*   - model.py        Model.__init__ and its phases                       *)
(* Python objects are records [t, v]: t is the runtime type, v tells the   *)
(* values of one type apart.  FieldInfo objects live in a heap (a sequence *)
(* indexed by object identity) because schemas share or copy them.         *)
(***************************************************************************)
EXTENDS Integers, Sequences, FiniteSets, TLC

\* ------------------------------------------------------------- bounds
\* values of each runtime type are numbered 1..MaxVal
MaxVal == 2
\* instances a schema's cache may hold
MaxInst == 2
\* predicates in one filter call
MaxPreds == 2
\* class statements that succeed in one run, on top of the parent schemas
MaxClasses == 1

\* ------------------------------------------------------------- values
IntV(n) == [t |-> "int", v |-> n]
StrV(n) == [t |-> "str", v |-> n]
FnV(n) == [t |-> "fn", v |-> n]
ListV(n) == [t |-> "list", v |-> n]
\* base/_typing.py: MISSING = MissingType()
MISSING == [t |-> "MISSING", v |-> 0]
\* a keyword that is not passed
Absent == [t |-> "absent", v |-> 0]

Ints == {IntV(n) : n \in 1..MaxVal}
Strs == {StrV(n) : n \in 1..MaxVal}
\* the hashable values: what a table of the cache can have as a key
Values == Ints \cup Strs
\* hash(value) does not raise
Hashable(value) == value.t # "list"

\* function objects: Fn_const is `def f(*_): return <str 1>`,
\* Fn_name is `def f(self): return self.name`, Fn_other a second constant
Fn_const == FnV(1)
Fn_name == FnV(2)
Fn_other == FnV(3)
\* __post_init__ hooks: `def __post_init__(self): self.email = self.slug` and
\* `def __post_init__(self): self.kind = self.name`
Fn_hook_email == FnV(4)
Fn_hook_kind == FnV(5)

\* the result of calling function object fn with the instance dict self
Call(fn, self) ==
    IF fn = Fn_name THEN self["name"]
    ELSE IF fn = Fn_other THEN StrV(2)
    ELSE StrV(1)

\* ------------------------------------------------------------- helpers
Range(s) == {s[i] : i \in DOMAIN s}
\* the element of a one-element set: The({e(x) : x \in {c}}) computes c once
\* and then e with x bound to the result
The(S) == CHOOSE x \in S : TRUE
\* a Python dict: insertion-ordered keys and the mapping
EmptyDict == [keys |-> <<>>, at |-> <<>>]
DictHas(d, k) == k \in Range(d.keys)
DictSet(d, k, x) ==
    IF DictHas(d, k) THEN [d EXCEPT !.at = [j \in DOMAIN d.at |-> IF j = k THEN x ELSE d.at[j]]]
    ELSE [keys |-> Append(d.keys, k), at |-> (k :> x) @@ d.at]

\* ------------------------------------------------------------- FieldInfo
\* the keyword arguments of Field(...) / FieldInfo(...), at their defaults
FieldArgs ==
    [name |-> "None", default |-> MISSING, default_factory |-> MISSING,
     type |-> "MISSING", init |-> TRUE, primary_key |-> FALSE, unique |-> FALSE,
     index |-> FALSE, classfield |-> FALSE, choices |-> {}]

\* FieldInfo.__init__: the object built from the arguments a
FieldInfo_new(a) ==
    [name |-> a.name, default |-> a.default, default_factory |-> a.default_factory,
     type |-> a.type, init |-> a.init, primary_key |-> a.primary_key,
     unique |-> (a.primary_key \/ a.unique), index |-> a.index,
     classfield |-> a.classfield, choices |-> a.choices, owner |-> "None"]

\* FieldInfo.__init__, the raise: a static default together with a
\* default_factory, unique or primary_key
FieldInfo_init_exc(a) ==
    IF a.default # MISSING
       /\ (a.default_factory # MISSING \/ FieldInfo_new(a).unique \/ a.primary_key)
    THEN "InvalidFieldError" ELSE "None"

\* FieldInfo.name
FieldInfo_name(f) == IF f.name = "None" THEN "Unnamed" ELSE f.name

\* FieldInfo.copy: the constructor arguments of the copy (no name, no owner)
FieldInfo_copy(f) ==
    [name |-> "None", default |-> f.default, default_factory |-> f.default_factory,
     type |-> f.type, init |-> f.init, primary_key |-> f.primary_key,
     unique |-> f.unique, index |-> f.index, classfield |-> f.classfield,
     choices |-> f.choices]

\* ------------------------------------------------------------- class bodies
\* One statement of a class body.  kind is
\*   "annotation"   x: T                 (no value)
\*   "field"        x: T = Field(args)   (ann may be "MISSING": no annotation)
\*   "value"        x: T = val           (a plain value)
\*   "function"     def set_<name>(self) (val is the function object)
\*   "classmethod"  @classmethod def set_<name>(cls)
Stmt(name, ann, kind, args, val) ==
    [name |-> name, ann |-> ann, kind |-> kind, args |-> args, val |-> val]

\* Evaluating the class body: every Field(...) call builds its FieldInfo, in
\* order; the first raise aborts the class statement.  ns is the namespace
\* handed to ModelMeta.__new__, with fid the identity of each FieldInfo.
RECURSIVE EvalBody(_, _, _, _)
EvalBody(heap, body, i, ns) ==
    IF i > Len(body) THEN [exc |-> "None", heap |-> heap, ns |-> ns]
    ELSE LET e == body[i] IN
         IF e.kind = "field"
         THEN IF FieldInfo_init_exc(e.args) # "None"
              THEN [exc |-> FieldInfo_init_exc(e.args), heap |-> heap, ns |-> ns]
              ELSE The({EvalBody(h, body, i + 1, n) :
                        h \in {Append(heap, FieldInfo_new(e.args))},
                        n \in {Append(ns, [name |-> e.name, ann |-> e.ann, kind |-> e.kind,
                                           fid |-> Len(heap) + 1, val |-> e.val])}})
         ELSE The({EvalBody(heap, body, i + 1, n) :
                   n \in {Append(ns, [name |-> e.name, ann |-> e.ann, kind |-> e.kind,
                                      fid |-> 0, val |-> e.val])}})

\* ------------------------------------------------------------- ModelFieldMap
\* ModelFieldMap.__init__: an empty dict with pk = None (0)
ModelFieldMap_new == [keys |-> <<>>, at |-> <<>>, pk |-> 0]

\* ModelFieldMap.__setitem__(key, value): value is heap[fid]
ModelFieldMap_setitem(fm, heap, key, fid) ==
    IF heap[fid].primary_key /\ fm.pk # 0
    THEN [exc |-> "InvalidModelError",
          names |-> <<FieldInfo_name(heap[fm.pk]), key>>, fm |-> fm]
    ELSE LET d == DictSet(fm, key, fid) IN
         [exc |-> "None", names |-> <<>>,
          fm |-> [keys |-> d.keys, at |-> d.at,
                  pk |-> IF heap[fid].primary_key THEN fid ELSE fm.pk]]

\* ModelFieldMap.from_namespace, first loop: a bare annotation becomes
\* FieldInfo(name=name, type=annotation)
RECURSIVE from_namespace_annotations(_, _, _, _)
from_namespace_annotations(heap, ns, i, fm) ==
    IF i > Len(ns) THEN [exc |-> "None", names |-> <<>>, heap |-> heap, fm |-> fm]
    ELSE IF ns[i].kind # "annotation" THEN from_namespace_annotations(heap, ns, i + 1, fm)
    ELSE The({The({IF r.exc # "None"
                   THEN [exc |-> r.exc, names |-> r.names, heap |-> h, fm |-> fm]
                   ELSE from_namespace_annotations(h, ns, i + 1, r.fm) :
                   r \in {ModelFieldMap_setitem(fm, h, ns[i].name, Len(h))}}) :
              h \in {Append(heap, FieldInfo_new([FieldArgs EXCEPT !.name = ns[i].name,
                                                                  !.type = ns[i].ann]))}})

\* ModelFieldMap.from_namespace, second loop: the names bound to a value that
\* is no function; a plain value is wrapped as FieldInfo(name, default=value)
RECURSIVE from_namespace_values(_, _, _, _)
from_namespace_values(heap, ns, i, fm) ==
    IF i > Len(ns) THEN [exc |-> "None", names |-> <<>>, heap |-> heap, fm |-> fm]
    ELSE IF ns[i].kind \notin {"field", "value"} THEN from_namespace_values(heap, ns, i + 1, fm)
    ELSE The({The({IF r.exc # "None"
                   THEN [exc |-> r.exc, names |-> r.names, heap |-> h, fm |-> fm]
                   ELSE from_namespace_values(h, ns, i + 1, r.fm) :
                   r \in {ModelFieldMap_setitem(fm, h, ns[i].name,
                              IF ns[i].kind = "field" THEN ns[i].fid ELSE Len(h))}}) :
              h \in {IF ns[i].kind = "field" THEN heap
                     ELSE Append(heap, FieldInfo_new([FieldArgs EXCEPT !.name = ns[i].name,
                                                                       !.default = ns[i].val,
                                                                       !.type = ns[i].ann]))}})

\* ModelFieldMap.from_namespace
ModelFieldMap_from_namespace(heap, ns) ==
    The({IF a.exc # "None" THEN a ELSE from_namespace_values(a.heap, ns, 1, a.fm) :
         a \in {from_namespace_annotations(heap, ns, 1, ModelFieldMap_new)}})

\* ------------------------------------------------------------- binding
NoSetter == [obj |-> MISSING, cm |-> FALSE]

\* getattr(owner, "set_<name>", MISSING): a plain function is the function
\* object itself, a classmethod is a bound method object
SetterAttr(setter) ==
    IF setter.obj = MISSING THEN MISSING
    ELSE IF setter.cm THEN [t |-> "method", v |-> setter.obj.v]
    ELSE setter.obj

\* FieldInfo._validate_instance_field_defaults: the distinct objects among
\* the setter, the default and the default_factory are counted
validate_instance_field_defaults(f, setter) ==
    LET defaults == {SetterAttr(setter), f.default, f.default_factory} \ {MISSING}
        default_count == Cardinality(defaults)
    IN  IF default_count > 1 THEN "InvalidFieldError"
        ELSE IF ~f.init /\ default_count = 0 THEN "InvalidFieldError"
        ELSE "None"

\* FieldInfo._validate_classvar_default_field
validate_classvar_default_field(f, setter) ==
    IF f.primary_key \/ f.unique \/ f.index \/ f.choices # {} THEN "InvalidFieldError"
    ELSE IF setter.obj # MISSING /\ ~setter.cm THEN "InvalidFieldError"
    ELSE validate_instance_field_defaults(f, setter)

\* FieldInfo.__set_name__(owner, name); annotation is
\* owner.__annotations__.get(name, MISSING), setter is owner's set_<name>
FieldInfo_set_name(f, owner, name, annotation, setter) ==
    LET type == IF f.type = "MISSING" THEN annotation ELSE f.type
        exc == IF f.owner # "None" THEN "InvalidFieldError"
               ELSE IF f.name # "None" /\ f.name # name THEN "InvalidFieldError"
               ELSE IF f.type = "MISSING" /\ annotation = "MISSING" THEN "InvalidFieldError"
               ELSE IF f.type # "MISSING" /\ annotation # "MISSING" /\ f.type # annotation
                    THEN "InvalidFieldError"
               ELSE IF f.classfield THEN validate_classvar_default_field(f, setter)
               ELSE validate_instance_field_defaults(f, setter)
        default == IF ~f.classfield THEN f.default
                   ELSE IF setter.obj # MISSING THEN Call(setter.obj, <<>>)
                   ELSE IF f.default_factory # MISSING THEN Call(f.default_factory, <<>>)
                   ELSE f.default
    IN  [exc |-> exc,
         f |-> [f EXCEPT !.name = name, !.owner = owner, !.type = type,
                         !.default = default,
                         !.init = IF f.classfield THEN FALSE ELSE f.init]]

\* ------------------------------------------------------------- ModelMeta
\* base/_meta.py: PROTECTED_MODEL_ATTRIBUTE_NAMES
PROTECTED_MODEL_ATTRIBUTE_NAMES == {"__fields_map__", "__cache__"}

\* base/_typing.py: the names type_registry starts with (those a model uses)
BuiltinTypeNames == {"int", "str", "bool", "list", "set", "dict", "tuple", "float", "bytes"}

\* the (base, field name) pairs of the two loops of _namespace_constructor
RECURSIVE BaseItems(_, _, _)
BaseItems(classes, bases, i) ==
    IF i > Len(bases) THEN <<>>
    ELSE [j \in 1..Len(classes[bases[i]].fields_map.keys) |->
              <<bases[i], classes[bases[i]].fields_map.keys[j]>>]
         \o BaseItems(classes, bases, i + 1)

\* ModelMeta._namespace_constructor, the loop over the bases: a shared field
\* is linked, any other is copied, and the copy's type is written into the
\* namespace's __annotations__ (a KeyError when the body has no annotation)
RECURSIVE inherit_fields(_, _, _, _, _)
inherit_fields(classes, items, i, st, has_annotations) ==
    IF i > Len(items) THEN st
    ELSE LET name == items[i][2]
             fid == classes[items[i][1]].fields_map.at[name]
             field == st.heap[fid]
         IN  IF DictHas(st.fm, name) THEN inherit_fields(classes, items, i + 1, st, has_annotations)
             ELSE IF field.classfield
             THEN The({inherit_fields(classes, items, i + 1, t, has_annotations) :
                       t \in {[st EXCEPT !.cfm = DictSet(st.cfm, name, fid)]}})
             ELSE IF FieldInfo_init_exc(FieldInfo_copy(field)) # "None"
             THEN [st EXCEPT !.exc = "InvalidFieldError"]
             ELSE The({The({
                      IF r.exc # "None" THEN [st EXCEPT !.exc = r.exc, !.names = r.names]
                      ELSE IF ~has_annotations THEN [st EXCEPT !.exc = "KeyError"]
                      ELSE The({inherit_fields(classes, items, i + 1, t, has_annotations) :
                                t \in {[st EXCEPT !.heap = h, !.fm = r.fm,
                                           !.annotations = (name :> field.type) @@ st.annotations]}}) :
                      r \in {ModelFieldMap_setitem(st.fm, h, name, Len(h))}}) :
                  h \in {Append(st.heap, FieldInfo_new(FieldInfo_copy(field)))}})

\* the class body's own __annotations__
RECURSIVE OwnAnnotations(_, _)
OwnAnnotations(ns, i) ==
    IF i > Len(ns) THEN <<>>
    ELSE IF ns[i].kind \in {"annotation", "field", "value"} /\ ns[i].ann # "MISSING"
         THEN (ns[i].name :> ns[i].ann) @@ OwnAnnotations(ns, i + 1)
         ELSE OwnAnnotations(ns, i + 1)

\* {**fields_map, **class_fields_map}
RECURSIVE DictMerge(_, _, _)
DictMerge(d, e, i) ==
    IF i > Len(e.keys) THEN d
    ELSE The({DictMerge(m, e, i + 1) : m \in {DictSet(d, e.keys[i], e.at[e.keys[i]])}})

\* ModelMeta._namespace_constructor: fm is the ModelFieldMap (own fields and
\* copies), fields_map the plain dict stored as __fields_map__
namespace_constructor(classes, heap, ns, bases) ==
    The({IF a.exc # "None"
         THEN [exc |-> a.exc, names |-> a.names, heap |-> heap, fm |-> a.fm,
               fields_map |-> [type |-> "dict", keys |-> <<>>, at |-> <<>>],
               annotations |-> own]
         ELSE The({The({[exc |-> st.exc, names |-> st.names, heap |-> st.heap, fm |-> st.fm,
                         fields_map |-> [type |-> "dict", keys |-> m.keys, at |-> m.at],
                         annotations |-> st.annotations] :
                        m \in {DictMerge([keys |-> st.fm.keys, at |-> st.fm.at], st.cfm, 1)}}) :
                   st \in {inherit_fields(classes, BaseItems(classes, bases, 1), 1,
                               [exc |-> "None", names |-> <<>>, heap |-> a.heap, fm |-> a.fm,
                                cfm |-> EmptyDict, annotations |-> own],
                               DOMAIN own # {})}}) :
         a \in {ModelFieldMap_from_namespace(heap, ns)}, own \in {OwnAnnotations(ns, 1)}})

\* the set_<name> methods an attribute lookup on the new class finds: its
\* own, then those of its bases in order
RECURSIVE OwnMethods(_, _)
OwnMethods(ns, i) ==
    IF i > Len(ns) THEN <<>>
    ELSE IF ns[i].kind \in {"function", "classmethod"}
         THEN OwnMethods(ns, i + 1) @@
              (ns[i].name :> [obj |-> ns[i].val, cm |-> ns[i].kind = "classmethod"])
         ELSE OwnMethods(ns, i + 1)

RECURSIVE BaseMethods(_, _, _)
BaseMethods(classes, bases, i) ==
    IF i > Len(bases) THEN <<>>
    ELSE classes[bases[i]].methods @@ BaseMethods(classes, bases, i + 1)

\* type.__new__ calls __set_name__ on every FieldInfo of the namespace, that
\* is on the own fields and the copies, in the order of the field map
RECURSIVE bind_fields(_, _, _, _, _, _)
bind_fields(heap, fm, i, owner, annotations, methods) ==
    IF i > Len(fm.keys) THEN [exc |-> "None", heap |-> heap]
    ELSE LET name == fm.keys[i]
             fid == fm.at[name]
         IN  The({IF r.exc # "None" THEN [exc |-> r.exc, heap |-> heap]
                  ELSE The({bind_fields(h, fm, i + 1, owner, annotations, methods) :
                            h \in {[heap EXCEPT ![fid] = r.f]}}) :
                  r \in {FieldInfo_set_name(heap[fid], owner, name,
                             IF name \in DOMAIN annotations THEN annotations[name] ELSE "MISSING",
                             IF name \in DOMAIN methods THEN methods[name] ELSE NoSetter)}})

\* ModelMeta._check_for_protected_names
check_for_protected_names(class_name, bases, ns) ==
    IF (\E i \in DOMAIN ns : ns[i].name \in PROTECTED_MODEL_ATTRIBUTE_NAMES)
       \/ (Len(bases) > 0 /\ class_name = "Model")
    THEN "InvalidModelError" ELSE "None"

\* The class statement `class class_name(*bases, abstract=abstract): body`:
\* the body is evaluated, then ModelMeta.__new__ runs.  bases = <<>> stands
\* for (Model,), whose field map is empty.  stage tells where it raised.
ModelMeta_new(classes, heap, class_name, bases, body, abstract) ==
    LET fail(exc, names, stage) ==
            [exc |-> exc, names |-> names, stage |-> stage, heap |-> heap, classes |-> classes]
        p(b) == check_for_protected_names(class_name, bases, b.ns)
    IN  The({
          IF b.exc # "None" THEN fail(b.exc, <<>>, "Field")
          ELSE IF p(b) # "None" THEN fail(p(b), <<>>, "protected")
          ELSE The({
            IF n.exc # "None" THEN fail(n.exc, n.names, "namespace")
            ELSE The({
              IF s.exc # "None" THEN fail(s.exc, <<>>, "bind")
              ELSE IF class_name \in DOMAIN classes \cup BuiltinTypeNames
                   THEN fail("TypeNameAlreadyRegisteredError", <<>>, "register_type")
              ELSE [exc |-> "None", names |-> <<>>, stage |-> "done", heap |-> s.heap,
                    classes |-> (class_name :> [bases |-> bases, abstract |-> abstract,
                                                fields_map |-> n.fields_map,
                                                methods |-> methods,
                                                annotations |-> n.annotations,
                                                index_order |->
                                                    SelectSeq(n.fields_map.keys,
                                                        LAMBDA m : s.heap[n.fields_map.at[m]].index)])
                               @@ classes] :
              s \in {bind_fields(n.heap, n.fm, 1, class_name, n.annotations, methods)}}) :
            n \in {namespace_constructor(classes, b.heap, b.ns, bases)},
            methods \in {OwnMethods(b.ns, 1) @@ BaseMethods(classes, bases, 1)}}) :
          b \in {EvalBody(heap, body, 1, <<>>)}})

\* ModelMeta.pk: cls.__fields_map__.pk; __fields_map__ is the plain dict that
\* _namespace_constructor stored, and a dict has no attribute pk
ModelMeta_pk(cls) ==
    IF cls.fields_map.type = "ModelFieldMap"
    THEN [exc |-> "None", pk |-> cls.fields_map.pk]
    ELSE [exc |-> "AttributeError", pk |-> 0]

\* the FieldInfo bound to name in cls
FieldOf(cls, heap, name) == heap[cls.fields_map.at[name]]

\* ------------------------------------------------------------- field access
\* base/_typing.py check_type for the registered plain types: isinstance
check_type(value, type) ==
    IF type = "str | list" THEN value.t \in {"str", "list"} ELSE value.t = type

\* FieldInfo._validate_value_type: "None" or the exception and its cause
validate_value_type(f, value) ==
    IF f.type = "MISSING" THEN [exc |-> "AssertionError", why |-> "type unset"]
    ELSE IF ~check_type(value, f.type) THEN [exc |-> "InvalidTypeError", why |-> "type"]
    ELSE IF f.choices # {} /\ value \notin f.choices
         THEN [exc |-> "InvalidTypeError", why |-> "choice"]
    ELSE [exc |-> "None", why |-> "None"]

\* FieldInfo.__get__ on an instance whose __dict__ is self
FieldInfo_get(f, self) == IF f.classfield THEN f.default ELSE self[f.name]

\* getattr(obj, name) for a field name of cls
GetAttr(cls, heap, self, name) == FieldInfo_get(FieldOf(cls, heap, name), self)

\* FieldInfo.__set__: the instance dict after a validated write
FieldInfo_set(f, self, value) == [self EXCEPT ![f.name] = value]

\* Model.__setattr__(name, value) for a field name: a protected name raises;
\* otherwise object.__setattr__ finds the data descriptor and calls
\* FieldInfo.__set__, which validates and writes the instance __dict__
Model_setattr(cls, heap, self, name, value) ==
    IF name \in PROTECTED_MODEL_ATTRIBUTE_NAMES
    THEN [exc |-> "AttributeError", self |-> self]
    ELSE IF validate_value_type(FieldOf(cls, heap, name), value).exc # "None"
    THEN [exc |-> validate_value_type(FieldOf(cls, heap, name), value).exc, self |-> self]
    ELSE [exc |-> "None", self |-> FieldInfo_set(FieldOf(cls, heap, name), self, value)]

\* a variant that reads the instance __dict__ only (C12 does not hold of it)
Model_dict_instance_only(cls, heap, self) == self

\* Model.dict: getattr(self, field_name) for every key of the field map
Model_dict(cls, heap, self) ==
    [n \in Range(cls.fields_map.keys) |-> GetAttr(cls, heap, self, n)]

\* a fresh instance: nothing in its __dict__
NewSelf(cls) == [n \in Range(cls.fields_map.keys) |-> MISSING]

\* ------------------------------------------------------------- Model.__init__
\* Model.__init_kwargs__: why[kw] is "None" for a keyword that was stored.
\* Each keyword is checked and stored on its own; the failures are collected.
kwarg_error(cls, heap, kw, value) ==
    IF ~DictHas(cls.fields_map, kw) THEN "not a field"
    ELSE IF FieldOf(cls, heap, kw).classfield THEN "class variable"
    ELSE IF ~FieldOf(cls, heap, kw).init THEN "init=False"
    ELSE validate_value_type(FieldOf(cls, heap, kw), value).why

\* a variant that raises on the first invalid keyword instead of collecting
\* them all (C10 does not hold of it)
init_kwargs_short_circuit(cls, heap, self, kwargs) ==
    LET given == {kw \in DOMAIN kwargs : kwargs[kw] # Absent}
        invalid == {kw \in given : kwarg_error(cls, heap, kw, kwargs[kw]) # "None"}
        errors == IF invalid = {} THEN {} ELSE {CHOOSE kw \in invalid : TRUE}
    IN  [exc |-> IF errors # {} THEN "InvalidModelError" ELSE "None",
         errors |-> errors,
         self |-> [n \in DOMAIN self |->
                      IF n \in given \ invalid THEN kwargs[n] ELSE self[n]]]

init_kwargs(cls, heap, self, kwargs) ==
    LET given == {kw \in DOMAIN kwargs : kwargs[kw] # Absent}
        errors == {kw \in given : kwarg_error(cls, heap, kw, kwargs[kw]) # "None"}
    IN  [exc |-> IF errors # {} THEN "InvalidModelError" ELSE "None",
         errors |-> errors,
         self |-> [n \in DOMAIN self |->
                      IF n \in given \ errors THEN kwargs[n] ELSE self[n]]]

\* a variant that reports only one of the missing fields (C11 does not hold
\* of it)
missing_fields_first_only(cls, heap, exclude) ==
    LET missing == {n \in Range(cls.fields_map.keys) :
                       /\ n \notin exclude
                       /\ ~FieldOf(cls, heap, n).classfield
                       /\ n \notin DOMAIN cls.methods
                       /\ FieldOf(cls, heap, n).default_factory = MISSING
                       /\ FieldOf(cls, heap, n).default = MISSING}
    IN  IF missing = {} THEN {} ELSE {CHOOSE n \in missing : TRUE}

\* Model.__init_defaults__, the set missing_fields: the non-shared fields not
\* in exclude that have no setter, no default factory and no default
missing_fields(cls, heap, exclude) ==
    LET fields == {n \in Range(cls.fields_map.keys) :
                      n \notin exclude /\ ~FieldOf(cls, heap, n).classfield}
        fields_with_setters == {n \in fields : n \in DOMAIN cls.methods}
        fields_with_default_factories ==
            {n \in fields : FieldOf(cls, heap, n).default_factory # MISSING}
        fields_with_defaults == {n \in fields : FieldOf(cls, heap, n).default # MISSING}
    IN  ((fields \ fields_with_setters) \ fields_with_default_factories)
            \ fields_with_defaults

\* Model.__init_defaults__: the three groups are written in turn, each write
\* through FieldInfo.__set__ (a default of the wrong type raises)
init_defaults(cls, heap, self, exclude) ==
    LET fields == {n \in Range(cls.fields_map.keys) :
                      n \notin exclude /\ ~FieldOf(cls, heap, n).classfield}
        fields_with_setters == {n \in fields : n \in DOMAIN cls.methods}
        fields_with_default_factories ==
            {n \in fields : FieldOf(cls, heap, n).default_factory # MISSING}
        fields_with_defaults == {n \in fields : FieldOf(cls, heap, n).default # MISSING}
        bad(names, s) ==
            {n \in names : validate_value_type(FieldOf(cls, heap, n), s[n]).exc # "None"}
        done(exc, s, trace) == [exc |-> exc, missing |-> {}, self |-> s, trace |-> trace]
    IN  IF missing_fields(cls, heap, exclude) # {}
        THEN [exc |-> "InvalidModelError", missing |-> missing_fields(cls, heap, exclude),
              self |-> self, trace |-> <<>>]
        ELSE The({
          IF bad(fields_with_defaults, s1) # {}
          THEN done("InvalidTypeError", self, <<"defaults">>)
          ELSE The({
            IF bad(fields_with_default_factories, s2) # {}
            THEN done("InvalidTypeError", s1, <<"defaults", "factories">>)
            ELSE The({
              IF bad(fields_with_setters, s3) # {}
              THEN done("InvalidTypeError", s2, <<"defaults", "factories", "setters">>)
              ELSE done("None", s3, <<"defaults", "factories", "setters">>) :
              s3 \in {[n \in DOMAIN self |->
                         IF n \in fields_with_setters THEN Call(cls.methods[n].obj, s2)
                         ELSE s2[n]]}}) :
            s2 \in {[n \in DOMAIN self |->
                       IF n \in fields_with_default_factories
                       THEN Call(FieldOf(cls, heap, n).default_factory, <<>>) ELSE s1[n]]}}) :
          s1 \in {[n \in DOMAIN self |->
                     IF n \in fields_with_defaults THEN FieldOf(cls, heap, n).default
                     ELSE self[n]]}})

\* Model.__post_init__: pass, unless the schema overrides it; the hooks
\* assign through Model.__setattr__
post_init(cls, heap, self) ==
    IF "__post_init__" \notin DOMAIN cls.methods THEN [exc |-> "None", self |-> self]
    ELSE IF cls.methods["__post_init__"].obj = Fn_hook_email
    THEN Model_setattr(cls, heap, self, "email", GetAttr(cls, heap, self, "slug"))
    ELSE IF cls.methods["__post_init__"].obj = Fn_hook_kind
    THEN Model_setattr(cls, heap, self, "kind", GetAttr(cls, heap, self, "name"))
    ELSE [exc |-> "None", self |-> self]

\* ------------------------------------------------------------- the caches
\* UniqueFieldCache.__init__: one table per unique field, value -> instance
\* (0: no entry)
UniqueFieldCache_new(cls, heap) ==
    [n \in {m \in Range(cls.fields_map.keys) : FieldOf(cls, heap, m).unique} |->
        [x \in Values |-> 0]]

\* IndexFieldCache.__init__: one table per indexed field, value -> list
IndexFieldCache_new(cls, heap) ==
    [n \in {m \in Range(cls.fields_map.keys) : FieldOf(cls, heap, m).index} |->
        [x \in Values |-> <<>>]]

\* a variant that checks the primary key's table only (C1 does not hold of it)
UniqueFieldCache_add_model_pk_only(ufc, cls, heap, id, self) ==
    LET errors == {n \in DOMAIN ufc : /\ FieldOf(cls, heap, n).primary_key
                                       /\ ufc[n][GetAttr(cls, heap, self, n)] # 0} IN
    IF errors # {}
    THEN [exc |-> "DuplicateUniqueFieldValueError", errors |-> errors, ufc |-> ufc]
    ELSE [exc |-> "None", errors |-> {},
          ufc |-> [n \in DOMAIN ufc |->
                      [ufc[n] EXCEPT ![GetAttr(cls, heap, self, n)] = id]]]

\* UniqueFieldCache.add_model: every table is checked before any is written;
\* cache.get(value) raises TypeError for an unhashable value
UniqueFieldCache_add_model(ufc, cls, heap, id, self) ==
    LET errors == {n \in DOMAIN ufc : ufc[n][GetAttr(cls, heap, self, n)] # 0} IN
    IF \E n \in DOMAIN ufc : ~Hashable(GetAttr(cls, heap, self, n))
    THEN [exc |-> "TypeError", errors |-> {}, ufc |-> ufc]
    ELSE IF errors # {}
    THEN [exc |-> "DuplicateUniqueFieldValueError", errors |-> errors, ufc |-> ufc]
    ELSE [exc |-> "None", errors |-> {},
          ufc |-> [n \in DOMAIN ufc |->
                      [ufc[n] EXCEPT ![GetAttr(cls, heap, self, n)] = id]]]

\* IndexFieldCache.add_model: the tables are written one after the other, in
\* the order of the dict (cls.index_order); cache[value] raises TypeError for
\* an unhashable value, and the tables written before it stay written
RECURSIVE IndexFieldCache_add_model_loop(_, _, _, _, _, _)
IndexFieldCache_add_model_loop(ifc, cls, heap, id, self, i) ==
    IF i > Len(cls.index_order) THEN [exc |-> "None", ifc |-> ifc]
    ELSE IF ~Hashable(GetAttr(cls, heap, self, cls.index_order[i]))
    THEN [exc |-> "TypeError", ifc |-> ifc]
    ELSE The({IndexFieldCache_add_model_loop(t, cls, heap, id, self, i + 1) :
              t \in {[ifc EXCEPT ![cls.index_order[i]][GetAttr(cls, heap, self, cls.index_order[i])]
                                    = Append(@, id)]}})

IndexFieldCache_add_model(ifc, cls, heap, id, self) ==
    IndexFieldCache_add_model_loop(ifc, cls, heap, id, self, 1)

\* a variant that writes the indexed tables before the unique tables are
\* checked (C2 does not hold of it)
ModelCache_add_model_index_first(c, cls, heap, id, self) ==
    The({IF u.exc # "None"
         THEN [exc |-> u.exc, errors |-> u.errors, c |-> [c EXCEPT !.index = x.ifc]]
         ELSE [exc |-> "None", errors |-> {},
               c |-> [all |-> c.all \cup {id}, unique |-> u.ufc, index |-> x.ifc]] :
         u \in {UniqueFieldCache_add_model(c.unique, cls, heap, id, self)},
         x \in {IndexFieldCache_add_model(c.index, cls, heap, id, self)}})

\* ModelCache.add_model on the cache c = [all, unique, index]
ModelCache_add_model(c, cls, heap, id, self) ==
    The({IF u.exc # "None" THEN [exc |-> u.exc, errors |-> u.errors, c |-> c]
         ELSE The({
           IF x.exc # "None"
           THEN [exc |-> x.exc, errors |-> {},
                 c |-> [all |-> c.all, unique |-> u.ufc, index |-> x.ifc]]
           ELSE [exc |-> "None", errors |-> {},
                 c |-> [all |-> c.all \cup {id}, unique |-> u.ufc, index |-> x.ifc]] :
           x \in {IndexFieldCache_add_model(c.index, cls, heap, id, self)}}) :
         u \in {UniqueFieldCache_add_model(c.unique, cls, heap, id, self)}})

\* a variant that registers the values the instance had before the
\* __post_init__ hook ran (C17 does not hold of it)
Model_init_phases_register_before_hook(cls, heap, c, id, kwargs) ==
    The({
      IF k.exc # "None"
      THEN [exc |-> k.exc, report |-> k.errors, self |-> k.self,
            trace |-> <<"kwargs">>, c |-> c]
      ELSE The({
        IF d.exc # "None"
        THEN [exc |-> d.exc, report |-> d.missing, self |-> d.self,
              trace |-> <<"kwargs">> \o d.trace, c |-> c]
        ELSE The({
          IF p.exc # "None"
          THEN [exc |-> p.exc, report |-> {}, self |-> p.self,
                trace |-> <<"kwargs">> \o d.trace \o <<"post_init">>, c |-> c]
          ELSE The({
            [exc |-> a.exc, report |-> a.errors, self |-> p.self,
             trace |-> <<"kwargs">> \o d.trace \o <<"post_init", "add_model">>,
             c |-> a.c] :
            a \in {ModelCache_add_model(c, cls, heap, id, d.self)}}) :
          p \in {post_init(cls, heap, d.self)}}) :
        d \in {init_defaults(cls, heap, k.self, {kw \in DOMAIN kwargs : kwargs[kw] # Absent})}}) :
      k \in {init_kwargs(cls, heap, NewSelf(cls), kwargs)}})

\* Model.__init__ after the abstract check: __init_kwargs__,
\* __init_defaults__(exclude=set(kwargs)), __post_init__, __cache__.add_model
Model_init_phases(cls, heap, c, id, kwargs) ==
    The({
      IF k.exc # "None"
      THEN [exc |-> k.exc, report |-> k.errors, self |-> k.self,
            trace |-> <<"kwargs">>, c |-> c]
      ELSE The({
        IF d.exc # "None"
        THEN [exc |-> d.exc, report |-> d.missing, self |-> d.self,
              trace |-> <<"kwargs">> \o d.trace, c |-> c]
        ELSE The({
          IF p.exc # "None"
          THEN [exc |-> p.exc, report |-> {}, self |-> p.self,
                trace |-> <<"kwargs">> \o d.trace \o <<"post_init">>, c |-> c]
          ELSE The({
            [exc |-> a.exc, report |-> a.errors, self |-> p.self,
             trace |-> <<"kwargs">> \o d.trace \o <<"post_init", "add_model">>,
             c |-> a.c] :
            a \in {ModelCache_add_model(c, cls, heap, id, p.self)}}) :
          p \in {post_init(cls, heap, d.self)}}) :
        d \in {init_defaults(cls, heap, k.self, {kw \in DOMAIN kwargs : kwargs[kw] # Absent})}}) :
      k \in {init_kwargs(cls, heap, NewSelf(cls), kwargs)}})

\* a variant without the abstract check (C9 does not hold of it)
Model_init_unchecked(cls, heap, c, id, kwargs) == Model_init_phases(cls, heap, c, id, kwargs)

\* Model.__init__(**kwargs) of an instance of cls whose identity will be id.
\* trace lists the phases that ran, report what the error reports.
Model_init(cls, heap, c, id, kwargs) ==
    IF cls.abstract
    THEN [exc |-> "InvalidModelError", report |-> {}, self |-> NewSelf(cls),
          trace |-> <<>>, c |-> c]
    ELSE Model_init_phases(cls, heap, c, id, kwargs)

\* ------------------------------------------------------------- queries
Present(kwargs) == {k \in DOMAIN kwargs : kwargs[k] # Absent}

\* the names of S in the order of the schema's field map
InFieldOrder(cls, S) == SelectSeq(cls.fields_map.keys, LAMBDA n : n \in S)

\* UniqueFieldCache.filter: filters.pop() is the predicate on lookup; the
\* other unique predicates are compared on the instance found
UniqueFieldCache_filter(ufc, cls, heap, objs, error_if_not_found, kwargs, names, lookup) ==
    LET model == ufc[lookup][kwargs[lookup]]
        not_found == IF error_if_not_found
                     THEN [exc |-> "ModelNotFoundError", ret |-> {}]
                     ELSE [exc |-> "None", ret |-> {}]
    IN  IF model = 0 THEN not_found
        ELSE IF \E n \in names \ {lookup} : GetAttr(cls, heap, objs[model], n) # kwargs[n]
        THEN not_found
        ELSE [exc |-> "None", ret |-> {model}]

\* IndexFieldCache.filter, the while loop over the other indexed predicates
RECURSIVE index_filter_loop(_, _, _, _, _, _, _, _)
index_filter_loop(models, cls, heap, objs, error_if_not_found, kwargs, rest, i) ==
    IF i > Len(rest) THEN [exc |-> "None", ret |-> Range(models)]
    ELSE LET kept == SelectSeq(models,
                         LAMBDA m : GetAttr(cls, heap, objs[m], rest[i]) = kwargs[rest[i]])
         IN  IF kept = <<>> /\ error_if_not_found
             THEN [exc |-> "ModelNotFoundError", ret |-> {}]
             ELSE index_filter_loop(kept, cls, heap, objs, error_if_not_found, kwargs, rest, i + 1)

\* a variant that does not compare the other indexed predicates (C5 does not
\* hold of it)
IndexFieldCache_filter_lookup_only(ifc, cls, heap, objs, error_if_not_found, kwargs, names, lookup) ==
    [exc |-> "None", ret |-> Range(ifc[lookup][kwargs[lookup]])]

\* IndexFieldCache.filter: kwargs_items.pop() is the predicate on lookup
IndexFieldCache_filter(ifc, cls, heap, objs, error_if_not_found, kwargs, names, lookup) ==
    index_filter_loop(ifc[lookup][kwargs[lookup]], cls, heap, objs, error_if_not_found,
                      kwargs, InFieldOrder(cls, names \ {lookup}), 1)

\* ModelCache.filter, the final loop over the predicates left in kwargs
RECURSIVE scan_loop(_, _, _, _, _, _, _, _)
scan_loop(objects, cls, heap, objs, error_if_not_found, kwargs, rest, i) ==
    IF i > Len(rest) THEN [exc |-> "None", ret |-> objects]
    ELSE LET kept == {o \in objects : GetAttr(cls, heap, objs[o], rest[i]) = kwargs[rest[i]]}
         IN  IF kept = {}
             THEN IF error_if_not_found THEN [exc |-> "ModelNotFoundError", ret |-> {}]
                  ELSE [exc |-> "None", ret |-> {}]
             ELSE scan_loop(kept, cls, heap, objs, error_if_not_found, kwargs, rest, i + 1)

\* ModelCache.filter(error_if_not_found, **kwargs); ulookup and ilookup are
\* the predicates the unique and the indexed tier pop for their lookup
ModelCache_filter(c, cls, heap, objs, error_if_not_found, kwargs, ulookup, ilookup) ==
    LET names == Present(kwargs)
        unique_names == names \cap DOMAIN c.unique
        rest1 == names \ unique_names
        index_names == rest1 \cap DOMAIN c.index
        rest2 == rest1 \ index_names
        u == UniqueFieldCache_filter(c.unique, cls, heap, objs, error_if_not_found,
                                     kwargs, unique_names, ulookup)
        x == IndexFieldCache_filter(c.index, cls, heap, objs, error_if_not_found,
                                    kwargs, index_names, ilookup)
    IN  IF names \ Range(cls.fields_map.keys) # {}
        THEN [exc |-> "InvalidFieldError", ret |-> {}]
        ELSE IF unique_names # {}
        THEN IF u.exc # "None" THEN u
             \* set().pop()
             ELSE IF u.ret = {} THEN [exc |-> "KeyError", ret |-> {}]
             ELSE IF \E n \in rest1 :
                        GetAttr(cls, heap, objs[CHOOSE o \in u.ret : TRUE], n) # kwargs[n]
                  THEN IF error_if_not_found
                       THEN [exc |-> "ModelNotFoundError", ret |-> {}]
                       ELSE [exc |-> "None", ret |-> {}]
                  ELSE u
        ELSE IF index_names # {}
        THEN IF x.exc # "None" THEN x
             ELSE scan_loop(x.ret, cls, heap, objs, error_if_not_found, kwargs,
                            InFieldOrder(cls, rest2), 1)
        ELSE scan_loop(c.all, cls, heap, objs, error_if_not_found, kwargs,
                       InFieldOrder(cls, rest2), 1)

\* ModelCache.get(pk_value)
ModelCache_get(c, cls, heap, pk_value) ==
    LET pk == ModelMeta_pk(cls) IN
    IF pk.exc # "None" THEN [exc |-> pk.exc, ret |-> {}]
    ELSE IF pk.pk = 0 THEN [exc |-> "NoPrimaryKeyError", ret |-> {}]
    ELSE IF c.unique[FieldInfo_name(heap[pk.pk])][pk_value] = 0
         THEN [exc |-> "ModelNotFoundError", ret |-> {}]
    ELSE [exc |-> "None", ret |-> {c.unique[FieldInfo_name(heap[pk.pk])][pk_value]}]

\* ------------------------------------------------------------- the schemas in use
\* class User(Model):
\*     id: int = Field(primary_key=True)
\*     email: str = Field(unique=True)
\*     age: int = Field(index=True)
\*     kind: str = Field(index=True, choices=[<str 1>], default_factory=f)
\*     name: str = <str 1>
\*     counter: int = Field(classfield=True, default=<int 1>)
\*     slug: str = Field(init=False)
\*     def set_slug(self): return self.name
UserBody(id_args) ==
    << Stmt("id", "int", "field", id_args, MISSING),
       Stmt("email", "str", "field", [FieldArgs EXCEPT !.unique = TRUE], MISSING),
       Stmt("age", "int", "field", [FieldArgs EXCEPT !.index = TRUE], MISSING),
       Stmt("kind", "str", "field",
            [FieldArgs EXCEPT !.index = TRUE, !.choices = {StrV(1)},
                              !.default_factory = Fn_const], MISSING),
       Stmt("name", "str", "value", FieldArgs, StrV(1)),
       Stmt("counter", "int", "field",
            [FieldArgs EXCEPT !.classfield = TRUE, !.default = IntV(1)], MISSING),
       Stmt("slug", "str", "field", [FieldArgs EXCEPT !.init = FALSE], MISSING),
       Stmt("slug", "MISSING", "function", FieldArgs, Fn_name) >>

\* the class statement of User, or of Base: the same body, abstract=True
Registry(class_name) ==
    ModelMeta_new(<<>>, <<>>, class_name, <<>>,
                  UserBody([FieldArgs EXCEPT !.primary_key = TRUE]), class_name = "Base")

Keywords == {"id", "email", "age", "kind", "name", "counter", "slug", "bogus"}
NoKwargs == [k \in Keywords |-> Absent]

\* ------------------------------------------------------------- state
VARIABLES
    classes,             \* the schemas defined: class name -> class
    heap,                \* the FieldInfo objects, by identity
    defined,             \* the last class statement and how it ended
    class_attrs,         \* plain values stored in a class's own __dict__ by
                         \* `cls.name = value`: class name -> (name -> value)
    model,               \* the schema whose cache is below
    all,                 \* ModelCache.all: the live set (instance identities)
    objs,                \* the __dict__ of each instance the cache refers to
    built,               \* the keywords each of these was built from
    unique_field_cache,  \* ModelCache._unique_field_cache
    index_field_cache,   \* ModelCache._index_field_cache
    last                 \* the last call on the model and how it ended

vars == <<classes, heap, defined, class_attrs, model, all, objs, built, unique_field_cache,
          index_field_cache, last>>
schema_vars == <<classes, heap, defined, class_attrs>>
cache_vars == <<all, objs, built, unique_field_cache, index_field_cache>>

Cls == classes[model]
Cache == [all |-> all, unique |-> unique_field_cache, index |-> index_field_cache]

NoCall ==
    [op |-> "none", cls |-> "None", name |-> "None", value |-> MISSING,
     kwargs |-> NoKwargs, error_if_not_found |-> FALSE, pk_value |-> MISSING,
     exc |-> "None", report |-> {}, ret |-> {}, self |-> <<>>, trace |-> <<>>]
NoClass ==
    [class_name |-> "None", bases |-> <<>>, body |-> <<>>, exc |-> "None",
     names |-> <<>>, stage |-> "none"]

\* ------------------------------------------------------------- inputs
\* keyword sets that name every required field with a value of its type
GoodKwargs ==
    {[NoKwargs EXCEPT !["id"] = i, !["email"] = e, !["age"] = a, !["name"] = n] :
        i \in Ints, e \in Strs, a \in Ints, n \in {Absent, StrV(2)}}

\* the offending keywords: an unknown name, a shared field, a field with
\* init=False, a value of the wrong type, a value outside the choices
Offences ==
    [bogus |-> IntV(1), counter |-> IntV(1), slug |-> StrV(1), age |-> StrV(1),
     kind |-> StrV(2)]
BadKwargs ==
    {[k \in Keywords |->
         IF k \in O THEN Offences[k]
         ELSE IF k = "id" THEN IntV(1) ELSE IF k = "email" THEN StrV(1)
         ELSE IF k = "age" THEN IntV(1) ELSE Absent] :
        O \in SUBSET (DOMAIN Offences) \ {{}}}

\* keyword sets that leave out required fields
MissingKwargs ==
    {[k \in Keywords |->
         IF k \in O THEN Absent
         ELSE IF k = "id" THEN IntV(2) ELSE IF k = "email" THEN StrV(2)
         ELSE IF k = "age" THEN IntV(1) ELSE Absent] :
        O \in SUBSET {"id", "email", "age"} \ {{}}}

KwargsInputs == GoodKwargs \cup BadKwargs \cup MissingKwargs

\* predicate sets: up to MaxPreds predicates, each on a field with a value of
\* the field's type; one on the shared field; one on an unknown name
PredInputs ==
    {p \in {[NoKwargs EXCEPT !["id"] = i, !["email"] = e, !["age"] = a, !["kind"] = k,
                             !["name"] = n] :
                i \in Ints \cup {Absent}, e \in Strs \cup {Absent}, a \in Ints \cup {Absent},
                k \in Strs \cup {Absent}, n \in Strs \cup {Absent}} :
        Cardinality(Present(p)) <= MaxPreds}
    \cup {[NoKwargs EXCEPT !["counter"] = IntV(1)], [NoKwargs EXCEPT !["bogus"] = IntV(1)]}

\* ------------------------------------------------------------- actions
\* cache c refers to instance id: in the live set or in one of the tables
Held(c, id) ==
    \/ id \in c.all
    \/ \E n \in DOMAIN c.unique : \E x \in Values : c.unique[n][x] = id
    \/ \E n \in DOMAIN c.index : \E x \in Values : id \in Range(c.index[n][x])

\* an instance is built: Model(**kwargs).  The object stays alive when the
\* cache refers to it.
Construct(kwargs) ==
    \E r \in {Model_init(Cls, heap, Cache, Len(objs) + 1, kwargs)} :
        /\ Held(r.c, Len(objs) + 1) => (Len(objs) < MaxInst)
        /\ all' = r.c.all
        /\ unique_field_cache' = r.c.unique
        /\ index_field_cache' = r.c.index
        /\ objs' = IF Held(r.c, Len(objs) + 1) THEN Append(objs, r.self) ELSE objs
        /\ built' = IF Held(r.c, Len(objs) + 1) THEN Append(built, kwargs) ELSE built
        /\ last' = [NoCall EXCEPT !.op = "construct", !.kwargs = kwargs, !.exc = r.exc,
                                  !.report = r.report, !.self = r.self, !.trace = r.trace]
        /\ UNCHANGED <<schema_vars, model>>

\* Model.__cache__.filter(error_if_not_found, **kwargs)
Filter(error_if_not_found, kwargs) ==
    \E ulookup \in IF Present(kwargs) \cap DOMAIN unique_field_cache = {} THEN {"None"}
                   ELSE Present(kwargs) \cap DOMAIN unique_field_cache :
    \E ilookup \in IF Present(kwargs) \cap DOMAIN index_field_cache = {} THEN {"None"}
                   ELSE Present(kwargs) \cap DOMAIN index_field_cache :
    \E r \in {ModelCache_filter(Cache, Cls, heap, objs, error_if_not_found, kwargs,
                                ulookup, ilookup)} :
        /\ last' = [NoCall EXCEPT !.op = "filter", !.kwargs = kwargs,
                                  !.error_if_not_found = error_if_not_found,
                                  !.exc = r.exc, !.ret = r.ret]
        /\ UNCHANGED <<schema_vars, model, cache_vars>>

\* Model.get(pk_value)
Get(pk_value) ==
    \E r \in {ModelCache_get(Cache, Cls, heap, pk_value)} :
    /\ last' = [NoCall EXCEPT !.op = "get", !.pk_value = pk_value, !.exc = r.exc,
                              !.ret = r.ret]
    /\ UNCHANGED <<schema_vars, model, cache_vars>>

\* obj.dict() of live instance o; the result is recorded in last.self
Dict(o) ==
    /\ o \in all
    /\ last' = [NoCall EXCEPT !.op = "dict", !.ret = {o},
                              !.self = Model_dict(Cls, heap, objs[o])]
    /\ UNCHANGED <<schema_vars, model, cache_vars>>

Init ==
    /\ model \in {"User", "Base"}
    /\ \E r \in {Registry(model)} : classes = r.classes /\ heap = r.heap
    /\ defined = NoClass
    /\ class_attrs = [c \in DOMAIN classes |-> <<>>]
    /\ all = {}
    /\ objs = <<>>
    /\ built = <<>>
    /\ unique_field_cache = UniqueFieldCache_new(classes[model], heap)
    /\ index_field_cache = IndexFieldCache_new(classes[model], heap)
    /\ last = NoCall

\* instances are built from every kind of keyword set
Next == \E kwargs \in KwargsInputs : Construct(kwargs)

Spec == Init /\ [][Next]_vars

\* instances are built from good keyword sets, and the cache is queried
NextQuery ==
    \/ \E kwargs \in GoodKwargs : Construct(kwargs)
    \/ \E e \in BOOLEAN, kwargs \in PredInputs : Filter(e, kwargs)
    \/ \E v \in Ints : Get(v)

SpecQuery == Init /\ [][NextQuery]_vars

\* instances are built from good keyword sets and projected with dict()
NextDict ==
    \/ \E kwargs \in GoodKwargs : Construct(kwargs)
    \/ \E o \in 1..MaxInst : Dict(o)

SpecDict == Init /\ [][NextDict]_vars


\* ------------------------------------------------------------- schema definition
\* The class bodies a class statement is given.  f is `def f(*_): return <str 1>`
\* (Fn_const), g a second function (Fn_other).
\*   a: int = Field(primary_key=True)
Body_a == << Stmt("a", "int", "field", [FieldArgs EXCEPT !.primary_key = TRUE], MISSING) >>
\*   b: int = Field(primary_key=True)
Body_b == << Stmt("b", "int", "field", [FieldArgs EXCEPT !.primary_key = TRUE], MISSING) >>
\*   a: int = Field(primary_key=True); b: int = Field(primary_key=True)
Body_a_b == Body_a \o Body_b
\*   a: int = Field(name="a", primary_key=True); b: int = Field(primary_key=True)
Body_named_a_b ==
    << Stmt("a", "int", "field", [FieldArgs EXCEPT !.name = "a", !.primary_key = TRUE],
            MISSING) >> \o Body_b
\*   pass
Body_pass == << >>
\*   c: int
Body_c == << Stmt("c", "int", "annotation", FieldArgs, MISSING) >>
\*   x: str = Field(default=<str 1>, default_factory=f)
Body_x_default_factory ==
    << Stmt("x", "str", "field",
            [FieldArgs EXCEPT !.default = StrV(1), !.default_factory = Fn_const], MISSING) >>
\*   x: str = <str 1>
Body_x_default == << Stmt("x", "str", "value", FieldArgs, StrV(1)) >>
\*   x: str = Field(default_factory=f)
Body_x_factory ==
    << Stmt("x", "str", "field", [FieldArgs EXCEPT !.default_factory = Fn_const], MISSING) >>
\*   def set_x(self): ...      (the function g)
Body_set_x == << Stmt("x", "MISSING", "function", FieldArgs, Fn_other) >>
\*   set_x = f                 (the function the factory is)
Body_set_x_f == << Stmt("x", "MISSING", "function", FieldArgs, Fn_const) >>
\*   counter: str = Field(classfield=True, default=<str 1>)
Body_counter ==
    << Stmt("counter", "str", "field",
            [FieldArgs EXCEPT !.classfield = TRUE, !.default = StrV(1)], MISSING) >>
\*   @classmethod def set_counter(cls): ...
Body_set_counter == << Stmt("counter", "MISSING", "classmethod", FieldArgs, Fn_other) >>

Bodies ==
    { Body_pass, Body_a, Body_b, Body_a_b, Body_named_a_b, Body_c,
      Body_x_default_factory, Body_x_default, Body_x_factory,
      Body_x_default \o Body_set_x, Body_x_factory \o Body_set_x,
      Body_x_factory \o Body_set_x_f, Body_c \o Body_set_x,
      Body_counter, Body_counter \o Body_set_counter, Body_c \o Body_set_counter }

\* the parent schemas, defined before anything else: each is
\* `class <name>(Model): body`
Parents ==
    << [class_name |-> "PA", body |-> Body_a],
       [class_name |-> "PB", body |-> Body_b],
       [class_name |-> "PX", body |-> Body_x_default],
       [class_name |-> "PF", body |-> Body_x_factory],
       [class_name |-> "PK", body |-> Body_counter] >>

RECURSIVE DefineParents(_, _)
DefineParents(i, r) ==
    IF i > Len(Parents) THEN r
    ELSE The({DefineParents(i + 1, n) :
              n \in {ModelMeta_new(r.classes, r.heap, Parents[i].class_name, <<>>,
                                   Parents[i].body, FALSE)}})

\* the name of the i-th class statement that succeeds
ClassName(i) == ToString(i)

\* the class statements that have succeeded
Children == DOMAIN classes \ {Parents[i].class_name : i \in DOMAIN Parents}

\* the base lists of a class statement: at most two of the schemas defined
BaseLists ==
    {<<>>} \cup {<<p>> : p \in DOMAIN classes}
           \cup {pq \in {<<p, q>> : p \in DOMAIN classes, q \in DOMAIN classes} :
                     pq[1] # pq[2]}

\* class <name>(*bases): body
DefineClass(bases, body) ==
    \E r \in {ModelMeta_new(classes, heap, ClassName(Cardinality(Children) + 1),
                            bases, body, FALSE)} :
        /\ Cardinality(Children) < MaxClasses
        /\ classes' = r.classes
        /\ heap' = r.heap
        /\ defined' = [class_name |-> ClassName(Cardinality(Children) + 1),
                       bases |-> bases, body |-> body, exc |-> r.exc, names |-> r.names,
                       stage |-> r.stage]
        /\ class_attrs' = [c \in DOMAIN r.classes |->
                              IF c \in DOMAIN class_attrs THEN class_attrs[c] ELSE <<>>]
        /\ UNCHANGED <<model, cache_vars, last>>

InitSchema ==
    /\ \E r \in {DefineParents(1, [classes |-> <<>>, heap |-> <<>>])} :
          classes = r.classes /\ heap = r.heap
    /\ defined = NoClass
    /\ class_attrs = [c \in DOMAIN classes |-> <<>>]
    /\ model = "None"
    /\ all = {}
    /\ objs = <<>>
    /\ built = <<>>
    /\ unique_field_cache = <<>>
    /\ index_field_cache = <<>>
    /\ last = NoCall

NextSchema == \E bases \in BaseLists, body \in Bodies : DefineClass(bases, body)

SpecSchema == InitSchema /\ [][NextSchema]_vars


\* ------------------------------------------------------------- properties
\* the field names of the schema in use, and those flagged unique
FieldNames == Range(Cls.fields_map.keys)
UniqueFields == {n \in FieldNames : FieldOf(Cls, heap, n).unique}
PrimaryKeys == {n \in FieldNames : FieldOf(Cls, heap, n).primary_key}

\* the instances registered before the last construction
Earlier == IF last.exc = "None" THEN all \ {Cardinality(all)} ELSE all

\* the unique fields on which the last candidate equals an earlier instance
Colliding == {n \in UniqueFields : \E o \in Earlier : objs[o][n] = last.self[n]}

\* C1: a construction that reaches registration with a unique-field value an
\* already-registered instance holds fails with DuplicateUniqueFieldValueError,
\* the report names exactly the unique fields on which the candidate
\* collides, and the live set holds exactly one instance with that value, an
\* earlier one.
C1_DuplicateUniqueValueRejected ==
    (last.op = "construct" /\ "add_model" \in Range(last.trace) /\ Colliding # {}) =>
        /\ last.exc = "DuplicateUniqueFieldValueError"
        /\ last.report = Colliding
        /\ \A n \in Colliding :
              /\ Cardinality({o \in all : objs[o][n] = last.self[n]}) = 1
              /\ {o \in all : objs[o][n] = last.self[n]} \subseteq Earlier

\* a third candidate collides with one registered instance on id and with
\* the other on email
C1_Witness ==
    /\ last.op = "construct"
    /\ last.exc = "DuplicateUniqueFieldValueError"
    /\ last.report = {"id", "email"}
    /\ Cardinality(all) = 2
    /\ unique_field_cache["id"][last.self["id"]] # unique_field_cache["email"][last.self["email"]]

\* C2: a construction that fails on a unique-value collision leaves the live
\* set, every unique-field table and every indexed-field table as they were.
C2_FailedRegistrationMutatesNothing ==
    [][(last'.op = "construct" /\ last'.exc = "DuplicateUniqueFieldValueError")
        => UNCHANGED <<all, objs, unique_field_cache, index_field_cache>>]_vars

\* a candidate collided on id while its email is held by no instance
C2_Witness ==
    /\ last.op = "construct"
    /\ last.exc = "DuplicateUniqueFieldValueError"
    /\ last.report = {"id"}
    /\ unique_field_cache["email"][last.self["email"]] = 0
    /\ index_field_cache["age"][last.self["age"]] = <<>>

\* the instances a linear scan of the live set finds for the predicates
Scan(kwargs) ==
    {o \in all : \A n \in Present(kwargs) : GetAttr(Cls, heap, objs[o], n) = kwargs[n]}

\* C3: filter with error_if_not_found=False and predicates over known field
\* names that match no registered instance returns the empty set and does not
\* raise.
C3_NoMatchReturnsEmpty ==
    (/\ last.op = "filter"
     /\ ~last.error_if_not_found
     /\ Present(last.kwargs) \subseteq FieldNames
     /\ Scan(last.kwargs) = {})
        => (last.exc = "None" /\ last.ret = {})

\* C4: filter with error_if_not_found=True and predicates over known field
\* names that match no registered instance raises ModelNotFoundError.
C4_NoMatchRaises ==
    (/\ last.op = "filter"
     /\ last.error_if_not_found
     /\ Present(last.kwargs) # {}
     /\ Present(last.kwargs) \subseteq FieldNames
     /\ Scan(last.kwargs) = {})
        => last.exc = "ModelNotFoundError"

\* C5: with no field assignment after construction, filter with a non-empty
\* predicate set over known field names that matches at least one instance
\* returns exactly the instances a linear scan of the live set finds.
C5_FilterEqualsScan ==
    (/\ last.op = "filter"
     /\ Present(last.kwargs) # {}
     /\ Present(last.kwargs) \subseteq FieldNames
     /\ Scan(last.kwargs) # {})
        => (last.exc = "None" /\ last.ret = Scan(last.kwargs))

\* two indexed predicates select one of two registered instances
C5_Witness ==
    /\ last.op = "filter"
    /\ Present(last.kwargs) = {"age", "kind"}
    /\ Cardinality(all) = 2
    /\ Cardinality(last.ret) = 1
    /\ last.ret = Scan(last.kwargs)

\* C6: get(v) fails with NoPrimaryKeyError on a schema with no primary key,
\* with ModelNotFoundError when no registered instance has primary-key value
\* v, and otherwise returns the one instance whose primary-key value is v.
C6_GetByPrimaryKey ==
    (last.op = "get") =>
        IF PrimaryKeys = {} THEN last.exc = "NoPrimaryKeyError"
        ELSE IF {o \in all : \E n \in PrimaryKeys : objs[o][n] = last.pk_value} = {}
        THEN last.exc = "ModelNotFoundError"
        ELSE /\ last.exc = "None"
             /\ last.ret = {o \in all : \E n \in PrimaryKeys : objs[o][n] = last.pk_value}


\* the field statements of the last class statement, and the names they bind
OwnFields == {i \in DOMAIN defined.body :
                 defined.body[i].kind \in {"annotation", "field", "value"}}
OwnNames == {defined.body[i].name : i \in OwnFields}

\* the fields the bases of the last class statement hand down, as name and
\* object: a name the body does not bind, from the first base that has it
BaseFieldNames(j) == Range(classes[defined.bases[j]].fields_map.keys)
Inherited ==
    UNION {{<<n, heap[classes[defined.bases[j]].fields_map.at[n]]>> :
               n \in {m \in BaseFieldNames(j) :
                         /\ m \notin OwnNames
                         /\ \A i \in 1..(j - 1) : m \notin BaseFieldNames(i)}} :
           j \in DOMAIN defined.bases}

\* the fields of the merged field map that are flagged primary key
DefinedPrimaryKeys ==
    {defined.body[i].name : i \in {j \in OwnFields : defined.body[j].args.primary_key}}
    \cup {nf[1] : nf \in {mf \in Inherited : mf[2].primary_key}}

\* C7: a class statement (whose body's Field calls all succeed) with two
\* primary-key fields in its merged field map, own or inherited, fails with
\* InvalidModelError, and the message names both fields.
C7_TwoPrimaryKeysNamed ==
    (/\ defined.class_name # "None"
     /\ defined.stage # "Field"
     /\ Cardinality(DefinedPrimaryKeys) >= 2) =>
        /\ defined.exc = "InvalidModelError"
        /\ DefinedPrimaryKeys \subseteq Range(defined.names)

Count(b) == IF b THEN 1 ELSE 0

\* the set_<name> methods the new class would find: its own and its bases'
HasSetter(name) ==
    \/ \E i \in DOMAIN defined.body :
          defined.body[i].kind \in {"function", "classmethod"} /\ defined.body[i].name = name
    \/ \E j \in DOMAIN defined.bases : name \in DOMAIN classes[defined.bases[j]].methods

\* how many of {static default, default_factory, set_<name>} field name has
DefaultSources(name) ==
    LET own == {i \in OwnFields : defined.body[i].name = name}
        default == IF own # {}
                   THEN \E i \in own : \/ defined.body[i].kind = "value"
                                       \/ /\ defined.body[i].kind = "field"
                                          /\ defined.body[i].args.default # MISSING
                   ELSE \E nf \in Inherited : nf[1] = name /\ nf[2].default # MISSING
        factory == IF own # {}
                   THEN \E i \in own : /\ defined.body[i].kind = "field"
                                       /\ defined.body[i].args.default_factory # MISSING
                   ELSE \E nf \in Inherited : nf[1] = name /\ nf[2].default_factory # MISSING
    IN  Count(default) + Count(factory) + Count(HasSetter(name))

\* C8: a class statement that gives a field more than one default source among
\* static default, default_factory and set_<name> method fails.
C8_OneDefaultSource ==
    (/\ defined.class_name # "None"
     /\ \E name \in OwnNames \cup {nf[1] : nf \in Inherited} : DefaultSources(name) > 1)
        => defined.exc # "None"

\* C9: constructing an instance of an abstract schema fails with
\* InvalidModelError before any keyword is examined or any phase runs, and
\* leaves the cache as it was.
C9_AbstractConstructionFails ==
    [][(last'.op = "construct" /\ Cls.abstract) =>
          /\ last'.exc = "InvalidModelError"
          /\ last'.trace = <<>>
          /\ last'.report = {}
          /\ \A n \in DOMAIN last'.self : last'.self[n] = MISSING
          /\ UNCHANGED <<all, objs, unique_field_cache, index_field_cache>>]_vars

\* the abstract schema was constructed with keywords that are invalid
C9_Witness ==
    /\ Cls.abstract
    /\ last.op = "construct"
    /\ last.exc = "InvalidModelError"
    /\ last.kwargs["bogus"] # Absent
    /\ last.report = {}

\* the keywords of a construction that are invalid: an unknown name, a shared
\* field, a field with init=False, a value of another type or outside the
\* field's choices
Offending(kwargs) ==
    {kw \in Present(kwargs) :
        \/ kw \notin FieldNames
        \/ /\ kw \in FieldNames
           /\ \/ FieldOf(Cls, heap, kw).classfield
              \/ ~FieldOf(Cls, heap, kw).init
              \/ kwargs[kw].t # FieldOf(Cls, heap, kw).type
              \/ /\ FieldOf(Cls, heap, kw).choices # {}
                 /\ kwargs[kw] \notin FieldOf(Cls, heap, kw).choices}

\* C10: a construction with invalid keywords fails once with InvalidModelError
\* whose report has one entry per invalid keyword; no default, factory,
\* setter or post-init hook runs and nothing is registered.
C10_KeywordErrorsAggregated ==
    [][(last'.op = "construct" /\ ~Cls.abstract /\ Offending(last'.kwargs) # {}) =>
          /\ last'.exc = "InvalidModelError"
          /\ last'.report = Offending(last'.kwargs)
          /\ last'.trace = <<"kwargs">>
          /\ \A n \in DOMAIN last'.self :
                last'.self[n] = IF n \in Present(last'.kwargs) \ Offending(last'.kwargs)
                                THEN last'.kwargs[n] ELSE MISSING
          /\ UNCHANGED <<all, objs, unique_field_cache, index_field_cache>>]_vars

\* all five kinds of invalid keyword were passed at once, to a schema that
\* already holds an instance
C10_Witness ==
    /\ last.op = "construct"
    /\ last.exc = "InvalidModelError"
    /\ last.report = {"bogus", "counter", "slug", "age", "kind"}
    /\ all # {}


\* the fields a construction leaves without a value: non-shared, not among
\* the keywords, and declared without default, factory or set_<name> method
Uncovered(kwargs) ==
    {n \in FieldNames :
        /\ n \notin Present(kwargs)
        /\ ~FieldOf(Cls, heap, n).classfield
        /\ FieldOf(Cls, heap, n).default = MISSING
        /\ FieldOf(Cls, heap, n).default_factory = MISSING
        /\ ~\E st \in Range(UserBody(FieldArgs)) :
                st.name = n /\ st.kind \in {"function", "classmethod"}}

\* C11: a construction with valid keywords that leaves fields uncovered fails
\* once with the missing-fields error naming every uncovered field; no
\* default, factory or setter value is stored and nothing is registered.
C11_MissingFieldsReported ==
    [][(last'.op = "construct" /\ ~Cls.abstract /\ Offending(last'.kwargs) = {}
            /\ Uncovered(last'.kwargs) # {}) =>
          /\ last'.exc = "InvalidModelError"
          /\ last'.report = Uncovered(last'.kwargs)
          /\ last'.trace = <<"kwargs">>
          /\ \A n \in DOMAIN last'.self :
                last'.self[n] = IF n \in Present(last'.kwargs)
                                THEN last'.kwargs[n] ELSE MISSING
          /\ UNCHANGED cache_vars]_vars

\* two required fields were left out at once, on a schema that already holds
\* an instance; the field with a default was not stored
C11_Witness ==
    /\ last.op = "construct"
    /\ last.exc = "InvalidModelError"
    /\ last.trace = <<"kwargs">>
    /\ last.report = {"id", "email"}
    /\ last.kwargs["age"] = IntV(1)
    /\ last.self["name"] = MISSING
    /\ all # {}


\* the declaration of field n in the User schema, and its set_<n> method
Declared(n) ==
    CHOOSE st \in Range(UserBody(FieldArgs)) : st.name = n /\ st.kind \in {"field", "value"}
DeclaredSetter(n) ==
    CHOOSE st \in Range(UserBody(FieldArgs)) :
        st.name = n /\ st.kind \in {"function", "classmethod"}

\* the value of field n after the keywords K, the static defaults and the
\* factories: MISSING where only a setter can provide it
Filled(K, n) ==
    IF n \in Present(K) THEN K[n]
    ELSE IF Declared(n).kind = "value" THEN Declared(n).val
    ELSE IF Declared(n).args.default # MISSING THEN Declared(n).args.default
    ELSE IF Declared(n).args.default_factory # MISSING
         THEN Call(Declared(n).args.default_factory, <<>>)
    ELSE MISSING

\* the keyword value where one was supplied, the default-derived value
\* otherwise
Expected(K) ==
    [n \in FieldNames |->
        IF Filled(K, n) # MISSING THEN Filled(K, n)
        ELSE Call(DeclaredSetter(n).val, [m \in FieldNames |-> Filled(K, m)])]

\* C12: dict() of an instance built from keywords K returns, for every field
\* of the schema, the keyword value where one was supplied and the static
\* default, factory result or setter result otherwise.
C12_DictRoundTrip ==
    (last.op = "dict") =>
        \A o \in last.ret :
            /\ DOMAIN last.self = FieldNames
            /\ last.self = Expected(built[o])

\* dict() of an instance whose name was a keyword and whose kind, slug and
\* counter came from the factory, the setter and the shared default
C12_Witness ==
    /\ last.op = "dict"
    /\ \E o \in last.ret : built[o]["name"] = StrV(2) /\ built[o]["kind"] = Absent
    /\ last.self["name"] = StrV(2)
    /\ last.self["slug"] = StrV(2)
    /\ last.self["kind"] = StrV(1)
    /\ last.self["counter"] = IntV(1)


\* ------------------------------------------------------------- shared fields
\* type.__getattribute__(cls, name) for a field name: the classes of the MRO
\* are searched in order.  A class's own __dict__ holds the plain value a
\* class-level assignment stored, or else the descriptor the class was bound
\* to (the descriptor's owner); a shared descriptor answers with its default.
RECURSIVE ClassGetAttr(_, _, _, _, _)
ClassGetAttr(cs, h, attrs, c, name) ==
    IF name \in DOMAIN attrs[c] THEN attrs[c][name]
    ELSE IF DictHas(cs[c].fields_map, name) /\ h[cs[c].fields_map.at[name]].owner = c
    THEN FieldInfo_get(h[cs[c].fields_map.at[name]], <<>>)
    ELSE IF cs[c].bases = <<>> THEN MISSING
    ELSE ClassGetAttr(cs, h, attrs, cs[c].bases[1], name)

\* the parent PK declares the shared field counter; the child KC declares c
\* and does not redeclare counter
SharedClasses == {"PK", "KC"}

\* `c.counter = value`: ModelMeta defines no __setattr__, so type.__setattr__
\* stores the plain value in c's own __dict__ (a descriptor's __set__ is only
\* consulted on the metaclass)
ClassSet(c, value) ==
    /\ class_attrs' = [class_attrs EXCEPT ![c] = ("counter" :> value) @@ @]
    /\ last' = [NoCall EXCEPT !.op = "class_set", !.cls = c, !.name = "counter",
                              !.value = value]
    /\ UNCHANGED <<classes, heap, defined, model, cache_vars>>

\* FieldInfo.__set_classvar__(owner, value) of the descriptor owner's field
\* map holds for counter
FieldInfo_set_classvar(f, owner, value) ==
    IF owner # f.owner THEN [exc |-> "InvalidFieldError", f |-> f]
    ELSE IF validate_value_type(f, value).exc # "None"
    THEN [exc |-> validate_value_type(f, value).exc, f |-> f]
    ELSE [exc |-> "None", f |-> [f EXCEPT !.default = value]]

SetClassvar(c, value) ==
    \E r \in {FieldInfo_set_classvar(FieldOf(classes[c], heap, "counter"), c, value)} :
        /\ heap' = [heap EXCEPT ![classes[c].fields_map.at["counter"]] = r.f]
        /\ last' = [NoCall EXCEPT !.op = "set_classvar", !.cls = c, !.name = "counter",
                                  !.value = value, !.exc = r.exc]
        /\ UNCHANGED <<classes, defined, class_attrs, model, cache_vars>>

InitShared ==
    /\ \E r \in {DefineParents(1, [classes |-> <<>>, heap |-> <<>>])} :
       \E k \in {ModelMeta_new(r.classes, r.heap, "KC", <<"PK">>, Body_c, FALSE)} :
          classes = k.classes /\ heap = k.heap
    /\ defined = NoClass
    /\ class_attrs = [c \in DOMAIN classes |-> <<>>]
    /\ model = "None"
    /\ all = {}
    /\ objs = <<>>
    /\ built = <<>>
    /\ unique_field_cache = <<>>
    /\ index_field_cache = <<>>
    /\ last = NoCall

NextShared ==
    \/ \E c \in SharedClasses, value \in Values : ClassSet(c, value)
    \/ \E c \in SharedClasses, value \in Values : SetClassvar(c, value)

SpecShared == InitShared /\ [][NextShared]_vars

\* C13: after counter is assigned through the parent or through the child,
\* reading counter through the parent and through the child returns the
\* assigned value.
C13_SharedFieldVisibleBothWays ==
    (last.op \in {"class_set", "set_classvar"} /\ last.value.t = "str") =>
        /\ last.exc = "None"
        /\ ClassGetAttr(classes, heap, class_attrs, "PK", "counter") = last.value
        /\ ClassGetAttr(classes, heap, class_attrs, "KC", "counter") = last.value


\* the value the own statement of field n in the last class statement
\* declares as static default, and its default factory
OwnStmt(n) == defined.body[CHOOSE i \in OwnFields : defined.body[i].name = n]
OwnDefault(n) ==
    IF OwnStmt(n).kind = "value" THEN OwnStmt(n).val
    ELSE IF OwnStmt(n).kind = "field" THEN OwnStmt(n).args.default
    ELSE MISSING
OwnFactory(n) ==
    IF OwnStmt(n).kind = "field" THEN OwnStmt(n).args.default_factory ELSE MISSING

\* C14: a class statement with parents, whatever its body declares (nothing
\* included), does not fail for want of own declarations, and the child
\* it yields holds every non-shared field of every parent under the same
\* name, as an object distinct from the parent's and bound to the child; where
\* the body declares the name, the object is the one the body declared.
C14_ChildHoldsParentFields ==
    (defined.class_name # "None" /\ defined.bases # <<>>) =>
        /\ defined.exc # "KeyError"
        /\ (defined.exc = "None") =>
              \A j \in DOMAIN defined.bases : \A n \in BaseFieldNames(j) :
                  LET pf == classes[defined.bases[j]].fields_map.at[n]
                      cm == classes[defined.class_name].fields_map
                  IN  ~heap[pf].classfield =>
                          /\ DictHas(cm, n)
                          /\ cm.at[n] # pf
                          /\ heap[cm.at[n]].owner = defined.class_name
                          /\ (n \in OwnNames) =>
                                /\ heap[cm.at[n]].default = OwnDefault(n)
                                /\ heap[cm.at[n]].default_factory = OwnFactory(n)

\* the same without the first conjunct: what holds of the children that the
\* class statement does yield
ChildHoldsParentFieldsWhenDefined ==
    (defined.class_name # "None" /\ defined.bases # <<>> /\ defined.exc = "None") =>
        C14_ChildHoldsParentFields


\* ------------------------------------------------------------- assignment
\* the keyword sets the instances are built from, the fields assigned to and
\* the predicates asked
SeedKwargs ==
    {[NoKwargs EXCEPT !["id"] = IntV(i), !["email"] = StrV(i), !["age"] = IntV(1)] :
        i \in 1..MaxVal}
AssignedNames == {"email", "age", "kind", "counter"}
SinglePreds ==
    {[NoKwargs EXCEPT !["email"] = e] : e \in Strs}
    \cup {[NoKwargs EXCEPT !["age"] = a] : a \in Ints}

\* `obj.name = value` on live instance o: nothing but the instance changes
Assign(o, name, value) ==
    /\ o \in all
    /\ \E r \in {Model_setattr(Cls, heap, objs[o], name, value)} :
          /\ objs' = [objs EXCEPT ![o] = r.self]
          /\ last' = [NoCall EXCEPT !.op = "assign", !.ret = {o}, !.name = name,
                                    !.value = value, !.exc = r.exc]
    /\ UNCHANGED <<schema_vars, model, all, built, unique_field_cache, index_field_cache>>

NextAssign ==
    \/ \E kwargs \in SeedKwargs : Construct(kwargs)
    \/ \E o \in 1..MaxInst, name \in AssignedNames, value \in Values : Assign(o, name, value)
    \/ \E kwargs \in SinglePreds : Filter(TRUE, kwargs)

SpecAssign == Init /\ [][NextAssign]_vars

\* C15: no two live instances hold equal current values of a unique field.
C15_UniqueAmongLive ==
    \A u \in UniqueFields : \A o1 \in all : \A o2 \in all :
        (o1 # o2) => GetAttr(Cls, heap, objs[o1], u) # GetAttr(Cls, heap, objs[o2], u)


\* value does not conform to field name: another type, or outside the
\* field's non-empty choices
Nonconforming(name, value) ==
    \/ value.t # FieldOf(Cls, heap, name).type
    \/ /\ FieldOf(Cls, heap, name).choices # {}
       /\ value \notin FieldOf(Cls, heap, name).choices

\* C16: a write to a field is rejected with a validation error exactly when
\* the value is of another type or outside the field's choices; a rejected
\* write leaves the stored value, and after an accepted write the next read
\* of the field returns the written value.
C16_WriteValidatedAndReadBack ==
    [][(last'.op = "assign") =>
          \A o \in last'.ret :
              /\ (last'.exc # "None") <=> Nonconforming(last'.name, last'.value)
              /\ (last'.exc # "None") =>
                    /\ last'.exc = "InvalidTypeError"
                    /\ objs' = objs
              /\ (last'.exc = "None") =>
                    GetAttr(Cls, heap, objs'[o], last'.name) = last'.value]_vars

\* the same for the per-instance fields only
WriteValidatedAndReadBackPerInstance ==
    [][(last'.op = "assign" /\ ~FieldOf(Cls, heap, last'.name).classfield) =>
          \A o \in last'.ret :
              /\ (last'.exc # "None") <=> Nonconforming(last'.name, last'.value)
              /\ (last'.exc # "None") =>
                    /\ last'.exc = "InvalidTypeError"
                    /\ objs' = objs
              /\ (last'.exc = "None") =>
                    GetAttr(Cls, heap, objs'[o], last'.name) = last'.value]_vars


\* C19: every live instance is filed in every unique-field table and every
\* indexed-field table under the current value of the field, and filter on a
\* unique or indexed field returns exactly the live instances whose current
\* value equals the predicate value.
C19_FiledUnderCurrentValue ==
    /\ \A o \in all :
          /\ \A u \in DOMAIN unique_field_cache :
                unique_field_cache[u][GetAttr(Cls, heap, objs[o], u)] = o
          /\ \A i \in DOMAIN index_field_cache :
                o \in Range(index_field_cache[i][GetAttr(Cls, heap, objs[o], i)])
    /\ (last.op = "filter" /\ Scan(last.kwargs) # {}) =>
          (last.exc = "None" /\ last.ret = Scan(last.kwargs))
    /\ (last.op = "filter" /\ last.exc = "None") => last.ret = Scan(last.kwargs)

\* the same of the queries alone: what filter returns
FilterReturnsCurrentHolders ==
    /\ (last.op = "filter" /\ Scan(last.kwargs) # {}) =>
          (last.exc = "None" /\ last.ret = Scan(last.kwargs))
    /\ (last.op = "filter" /\ last.exc = "None") => last.ret = Scan(last.kwargs)


\* the places instance o is filed at in the table of unique field u, and in
\* the table of indexed field i
UniqueEntries(u, o) == {v \in Values : unique_field_cache[u][v] = o}
IndexEntries(i, o) ==
    {vk \in UNION {{<<v, k>> : k \in DOMAIN index_field_cache[i][v]} : v \in Values} :
        index_field_cache[i][vk[1]][vk[2]] = o}

\* C18: after any constructions, successful or failed, every entry of a
\* unique-field table or an indexed-field table is a live instance, and every
\* live instance is filed exactly once in every unique-field table and in
\* every indexed-field table.
C18_TablesHoldExactlyLive ==
    /\ \A u \in DOMAIN unique_field_cache : \A v \in Values :
          unique_field_cache[u][v] # 0 => unique_field_cache[u][v] \in all
    /\ \A i \in DOMAIN index_field_cache : \A v \in Values :
          Range(index_field_cache[i][v]) \subseteq all
    /\ \A o \in all :
          /\ \A u \in DOMAIN unique_field_cache : Cardinality(UniqueEntries(u, o)) = 1
          /\ \A i \in DOMAIN index_field_cache : Cardinality(IndexEntries(i, o)) = 1


\* ------------------------------------------------------------- unhashable values
\* class Tagged(Model):
\*     id: int = Field(primary_key=True)
\*     tag: str | list = Field(index=True)
\*     age: int = Field(index=True)
TaggedBody ==
    << Stmt("id", "int", "field", [FieldArgs EXCEPT !.primary_key = TRUE], MISSING),
       Stmt("tag", "str | list", "field", [FieldArgs EXCEPT !.index = TRUE], MISSING),
       Stmt("age", "int", "field", [FieldArgs EXCEPT !.index = TRUE], MISSING) >>

\* the keyword sets Tagged instances are built from: the tag a str or a list,
\* the age given or left out
TaggedKwargs ==
    {[id |-> i, tag |-> t, age |-> a] :
        i \in Ints, t \in {StrV(1), ListV(1)}, a \in {IntV(1), Absent}}

\* IndexFieldCache.__init__ fills the dict from the set model.fields, whose
\* iteration order is not fixed: either order of the two tables can occur
InitTagged ==
    /\ model = "Tagged"
    /\ \E r \in {ModelMeta_new(<<>>, <<>>, "Tagged", <<>>, TaggedBody, FALSE)} :
       \E order \in {<<"tag", "age">>, <<"age", "tag">>} :
          /\ classes = [r.classes EXCEPT !["Tagged"].index_order = order]
          /\ heap = r.heap
    /\ defined = NoClass
    /\ class_attrs = [c \in DOMAIN classes |-> <<>>]
    /\ all = {}
    /\ objs = <<>>
    /\ built = <<>>
    /\ unique_field_cache = UniqueFieldCache_new(classes[model], heap)
    /\ index_field_cache = IndexFieldCache_new(classes[model], heap)
    /\ last = NoCall

NextTagged == \E kwargs \in TaggedKwargs : Construct(kwargs)

SpecTagged == InitTagged /\ [][NextTagged]_vars


\* ------------------------------------------------------------- the post-init hook
\* class Hooked(Model): the fields of User, and
\*     def __post_init__(self): self.email = self.slug
\* class Strict(Model): the fields of User, and
\*     def __post_init__(self): self.kind = self.name
HookedBody(hook) ==
    UserBody([FieldArgs EXCEPT !.primary_key = TRUE])
        \o << Stmt("__post_init__", "MISSING", "function", FieldArgs, hook) >>

InitHook ==
    /\ model \in {"Hooked", "Strict"}
    /\ \E r \in {ModelMeta_new(<<>>, <<>>, model, <<>>,
                               HookedBody(IF model = "Hooked" THEN Fn_hook_email
                                          ELSE Fn_hook_kind), FALSE)} :
          classes = r.classes /\ heap = r.heap
    /\ defined = NoClass
    /\ class_attrs = [c \in DOMAIN classes |-> <<>>]
    /\ all = {}
    /\ objs = <<>>
    /\ built = <<>>
    /\ unique_field_cache = UniqueFieldCache_new(classes[model], heap)
    /\ index_field_cache = IndexFieldCache_new(classes[model], heap)
    /\ last = NoCall

SpecHook == InitHook /\ [][Next]_vars

\* the field values after the hook of the schema ran on values s
AfterHook(s) ==
    IF model = "Hooked" THEN [s EXCEPT !["email"] = s["slug"]]
    ELSE [s EXCEPT !["kind"] = s["name"]]

AllPhases == <<"kwargs", "defaults", "factories", "setters", "post_init", "add_model">>

\* C17: a successful construction ran keywords, static defaults, factories,
\* setters, the __post_init__ hook and registration, in this order, and the
\* instance is registered under the values it has after the hook; a
\* construction in which a phase before registration raised registers
\* nothing.
C17_PhaseOrder ==
    [][(last'.op = "construct") =>
          /\ \E n \in 0..Len(AllPhases) : last'.trace = SubSeq(AllPhases, 1, n)
          /\ (last'.exc = "None") =>
                /\ last'.trace = AllPhases
                /\ DOMAIN last'.self = FieldNames
                /\ \A f \in FieldNames \ {"counter"} :
                      last'.self[f] = AfterHook(Expected(last'.kwargs))[f]
                /\ all' = all \cup {Len(objs')}
                /\ objs'[Len(objs')] = last'.self
                /\ \A u \in DOMAIN unique_field_cache :
                      unique_field_cache'[u] =
                          [unique_field_cache[u] EXCEPT ![last'.self[u]] = Len(objs')]
                /\ \A i \in DOMAIN index_field_cache :
                      index_field_cache'[i] =
                          [index_field_cache[i] EXCEPT ![last'.self[i]] = Append(@, Len(objs'))]
          /\ (last'.exc # "None" /\ "add_model" \notin Range(last'.trace)) =>
                UNCHANGED cache_vars]_vars

\* the hook replaced the keyword email by the setter-derived slug, and the
\* instance is filed under the value the hook wrote
C17_Witness ==
    /\ model = "Hooked"
    /\ last.op = "construct"
    /\ last.exc = "None"
    /\ last.kwargs["email"] = StrV(2)
    /\ last.kwargs["name"] = Absent
    /\ last.self["email"] = StrV(1)
    /\ unique_field_cache["email"][StrV(1)] = Len(objs)
    /\ unique_field_cache["email"][StrV(2)] = 0

\* the hook raised: the construction failed after the setters and nothing
\* was registered
HookRaised ==
    /\ model = "Strict"
    /\ last.op = "construct"
    /\ last.exc = "InvalidTypeError"
    /\ last.trace = <<"kwargs", "defaults", "factories", "setters", "post_init">>

====
